---------------------------- MODULE Spec2Model ----------------------------
(***************************************************************************)
(* Model of the Boeing 777-300 performance dashboard (src/main.py).        *)
(*                                                                         *)
(* The program is a top-level script that is run from its first line to    *)
(* its last each time one of its four sliders changes.  The state is the   *)
(* script's global namespace: the aircraft constants, the four slider      *)
(* values and every quantity the script computes from them.                *)
(*                                                                         *)
(* The script computes in IEEE-754 binary floating point.  The model       *)
(* computes in decimal floating point with an 8-digit mantissa:            *)
(* a finite number is [k |-> "fin", m |-> m, e |-> e] and stands for       *)
(* m * 10^e with MantMin <= |m| < 10*MantMin, or m = 0.  Every operation   *)
(* truncates its exact result to 8 digits, so a result carries a relative  *)
(* error below 10^-7 per operation where the script's carries 10^-16.      *)
(* Division by zero, 0*inf and inf/inf give inf and nan as numpy's do.     *)
(***************************************************************************)
EXTENDS Integers, Sequences, FiniteSets, TLC

(***************************************************************************)
(* Decimal floating point                                                  *)
(***************************************************************************)
MantMin == 10000000
MantMax == 10 * MantMin
HalfBase == 10000

Abs(n) == IF n < 0 THEN -n ELSE n
Sgn(n) == IF n < 0 THEN -1 ELSE IF n = 0 THEN 0 ELSE 1

Pow10(d) == <<1, 10, 100, 1000, 10000, 100000, 1000000, 10000000,
              100000000, 1000000000>>[d + 1]

Fin(m, e) == [k |-> "fin", m |-> m, e |-> e]
Zero == Fin(0, 0)
Inf(s) == [k |-> "inf", m |-> s, e |-> 0]
NaN == [k |-> "nan", m |-> 0, e |-> 0]

IsFin(x) == x.k = "fin"
IsInf(x) == x.k = "inf"
IsNaN(x) == x.k = "nan"
IsZero(x) == x.k = "fin" /\ x.m = 0

\* the number of decimal digits of n, 0 < n < 2^31
Digits(n) ==
    IF n < 10 THEN 1 ELSE IF n < 100 THEN 2 ELSE IF n < 1000 THEN 3
    ELSE IF n < 10000 THEN 4 ELSE IF n < 100000 THEN 5
    ELSE IF n < 1000000 THEN 6 ELSE IF n < 10000000 THEN 7
    ELSE IF n < 100000000 THEN 8 ELSE IF n < 1000000000 THEN 9 ELSE 10

\* the pair <<m, e'>> with MantMin <= m < MantMax standing for n * 10^e,
\* n > 0, truncated to 8 digits
NormAbs(n, e) ==
    LET d == Digits(n)
    IN IF d > 8 THEN <<n \div Pow10(d - 8), e + (d - 8)>>
       ELSE <<n * Pow10(8 - d), e - (8 - d)>>

\* the float n * 10^e of an integer n, truncated towards zero
Norm(n, e) ==
    IF n = 0 THEN Zero
    ELSE LET p == NormAbs(Abs(n), e) IN Fin(Sgn(n) * p[1], p[2])

\* a decimal literal of the source: Dec(28815, -2) is 288.15
Dec(n, e) == Norm(n, e)
FInt(n) == Norm(n, 0)

FNeg(x) == [x EXCEPT !.m = -x.m]

FMul(x, y) ==
    IF IsNaN(x) \/ IsNaN(y) THEN NaN
    ELSE IF IsInf(x) \/ IsInf(y)
        THEN IF x.m = 0 \/ y.m = 0 THEN NaN ELSE Inf(Sgn(x.m) * Sgn(y.m))
    ELSE IF x.m = 0 \/ y.m = 0 THEN Zero
    ELSE LET A == Abs(x.m)
             B == Abs(y.m)
             ah == A \div HalfBase
             al == A % HalfBase
             bh == B \div HalfBase
             bl == B % HalfBase
             hi == ah * bh
             \* A*B = hi*10^8 + mid*10^4 + (al*bl) % 10^4
             mid == ah * bl + al * bh + (al * bl) \div HalfBase
             top == hi + mid \div HalfBase
             s == Sgn(x.m) * Sgn(y.m)
         IN IF top >= MantMin
               THEN Fin(s * top, x.e + y.e + 8)
               ELSE Fin(s * (hi * 10 + mid \div 1000), x.e + y.e + 7)

RECURSIVE LongDiv(_, _, _, _)
\* n more digits of a long division by B: q is the quotient so far and r
\* the remainder, below B < 10^8, so that r * 10 is below 10^9
LongDiv(r, B, n, q) ==
    IF n = 0 THEN q
    ELSE IF r = 0 THEN q * Pow10(n)
    ELSE LongDiv((r * 10) % B, B, n - 1, q * 10 + (r * 10) \div B)

FDiv(x, y) ==
    IF IsNaN(x) \/ IsNaN(y) THEN NaN
    ELSE IF IsInf(x) THEN (IF IsInf(y) THEN NaN
                           ELSE Inf(x.m * (IF y.m < 0 THEN -1 ELSE 1)))
    ELSE IF IsInf(y) THEN Zero
    ELSE IF y.m = 0 THEN (IF x.m = 0 THEN NaN ELSE Inf(Sgn(x.m)))
    ELSE IF x.m = 0 THEN Zero
    ELSE LET A == Abs(x.m)
             B == Abs(y.m)
             s == Sgn(x.m) * Sgn(y.m)
         IN IF A >= B
               THEN Fin(s * LongDiv(A % B, B, 7, A \div B), x.e - y.e - 7)
               ELSE Fin(s * LongDiv(A, B, 8, 0), x.e - y.e - 8)

FAdd(x, y) ==
    IF IsNaN(x) \/ IsNaN(y) THEN NaN
    ELSE IF IsInf(x) THEN (IF IsInf(y) /\ y.m # x.m THEN NaN ELSE x)
    ELSE IF IsInf(y) THEN y
    ELSE IF x.m = 0 THEN y
    ELSE IF y.m = 0 THEN x
    ELSE LET hi == IF x.e >= y.e THEN x ELSE y
             lo == IF x.e >= y.e THEN y ELSE x
             d == hi.e - lo.e
         IN IF d > 8 THEN hi
            \* one guard digit: hi.m*10 and lo.m*10 are below 10^9
            ELSE Norm(hi.m * 10 + Sgn(lo.m) * ((Abs(lo.m) * 10) \div Pow10(d)),
                      hi.e - 1)

FSub(x, y) == FAdd(x, FNeg(y))

\* -1, 0, 1 as x < y, x = y, x > y, for finite x and y
FCmp(x, y) == LET d == FSub(x, y) IN Sgn(d.m)
FLt(x, y) == IsFin(x) /\ IsFin(y) /\ FCmp(x, y) < 0
FLe(x, y) == IsFin(x) /\ IsFin(y) /\ FCmp(x, y) <= 0
\* Python's min(x, y): y when y < x, else x (so min(nan, 1) is nan)
FMin(x, y) == IF FLt(y, x) THEN y ELSE x

RECURSIVE Newton(_, _, _)
\* n Newton steps from r towards the square root of x: r <- (r + x/r)/2
Newton(x, r, n) ==
    IF n = 0 \/ IsNaN(r) THEN r
    ELSE Newton(x, FMul(Dec(5, -1), FAdd(r, FDiv(x, r))), n - 1)

\* the error is squared at each step, from below 2: six steps give 8 digits
SqrtSteps == 6

\* np.sqrt: nan below zero; the first guess is within a factor 4 of the root
FSqrt(x) ==
    IF IsNaN(x) THEN NaN
    ELSE IF IsInf(x) THEN (IF x.m > 0 THEN x ELSE NaN)
    ELSE IF x.m = 0 THEN Zero
    ELSE IF x.m < 0 THEN NaN
    ELSE LET ex == x.e + 7  \* x = (m / 10^7) * 10^ex, 1 <= m / 10^7 < 10
             half == IF ex % 2 = 0 THEN ex \div 2 ELSE (ex - 1) \div 2
             g0 == IF ex % 2 = 0 THEN Norm(2, half) ELSE Norm(6, half)
         IN Newton(x, g0, SqrtSteps)

\* <<y', j>> with y = y' * 2^j and 0.75 < y' <= 1.5, for 1 <= y < 10
HalveTo(y) ==
    IF FLe(y, Dec(15, -1)) THEN <<y, 0>>
    ELSE IF FLe(y, FInt(3)) THEN <<FMul(y, Dec(5, -1)), 1>>
    ELSE IF FLe(y, FInt(6)) THEN <<FMul(y, Dec(25, -2)), 2>>
    ELSE <<FMul(y, Dec(125, -3)), 3>>

RECURSIVE AtanhSeries(_, _, _)
\* atanh(z)/z = 1 + w/3 + w^2/5 + ... with w = z^2 <= 0.04, in Horner
\* form: acc holds the terms after 1/n, and the terms 1/n down to 1 remain
AtanhSeries(w, n, acc) ==
    IF n < 1 \/ IsNaN(acc) THEN acc
    ELSE AtanhSeries(w, n - 2, FAdd(FDiv(FInt(1), FInt(n)), FMul(w, acc)))

LnTerms == 15

Ln2 == Dec(69314718, -8)
Ln10 == Dec(23025851, -7)
\* ln of a float in (0.75, 1.5]: 2 * atanh((y - 1)/(y + 1))
LnNear1(y) ==
    LET z == FDiv(FSub(y, FInt(1)), FAdd(y, FInt(1)))
    IN FMul(FMul(FInt(2), z), AtanhSeries(FMul(z, z), LnTerms - 2,
                                             FDiv(FInt(1), FInt(LnTerms))))

\* ln(y' * 2^j * 10^d), r being <<y', j>>
LnParts(r, d) ==
    FAdd(FAdd(LnNear1(r[1]), FMul(FInt(r[2]), Ln2)), FMul(FInt(d), Ln10))

\* np.log: x = (m / 10^7) * 10^(e + 7), and m / 10^7 = y' * 2^j
FLn(x) ==
    IF IsNaN(x) THEN NaN
    ELSE IF IsInf(x) THEN (IF x.m > 0 THEN x ELSE NaN)
    ELSE IF x.m = 0 THEN Inf(-1)
    ELSE IF x.m < 0 THEN NaN
    ELSE LnParts(HalveTo(Fin(x.m, -7)), x.e + 7)

\* x ** 2
FSq(x) == FMul(x, x)

RECURSIVE ExpSeries(_, _, _)
\* 1 + x + x^2/2! + ... in Horner form: acc holds the factor of x^n/n!,
\* and the terms x^n/n! down to x remain
ExpSeries(x, n, acc) ==
    IF n < 1 \/ IsNaN(acc) THEN acc
    ELSE ExpSeries(x, n - 1, FAdd(FInt(1), FMul(FDiv(x, FInt(n)), acc)))

ExpTerms == 12

\* np.exp for |x| of a few units: exp(x) = exp(x/4)^4
FExp(x) ==
    IF IsNaN(x) THEN NaN
    ELSE IF IsInf(x) THEN (IF x.m > 0 THEN x ELSE Zero)
    ELSE FSq(FSq(ExpSeries(FMul(x, Dec(25, -2)), ExpTerms, FInt(1))))

\* b ** x for b > 0
FPow(b, x) == FExp(FMul(x, FLn(b)))

(***************************************************************************)
(* Aircraft constant data (lines 28-43)                                    *)
(***************************************************************************)
MTOW == 299000
OEW == 168000
MaxFuel == 145000
S == 427
CD0 == Dec(18, -3)
K == Dec(45, -3)
CLmax_TO == Dec(16, -1)
CLmax_L == Dec(22, -1)
thrust_SL == 800000
TSFC_hr == Dec(6, -1)
MaxMach == Dec(89, -2)
ServiceCeiling == 43000
DesignRange == 11000
g == Dec(981, -2)

\* the constants as the script's global namespace holds them
AircraftConstants ==
    [MTOW |-> MTOW, OEW |-> OEW, MaxFuel |-> MaxFuel, S |-> S, CD0 |-> CD0,
     K |-> K, CLmax_TO |-> CLmax_TO, CLmax_L |-> CLmax_L,
     thrust_SL |-> thrust_SL, TSFC_hr |-> TSFC_hr, MaxMach |-> MaxMach,
     ServiceCeiling |-> ServiceCeiling, DesignRange |-> DesignRange, g |-> g]

(***************************************************************************)
(* ISA atmosphere (lines 63-71): <<rho, a>> at h metres                    *)
(***************************************************************************)
isa(h) ==
    LET T0 == Dec(28815, -2)
        P0 == FInt(101325)
        L == Dec(-65, -4)
        R == FInt(287)
        low == FLe(h, FInt(11000))
        T == IF low THEN FAdd(T0, FMul(L, h)) ELSE Dec(21665, -2)
        P == IF low
               THEN FMul(P0, FPow(FDiv(T, T0), FDiv(FNeg(g), FMul(L, R))))
               ELSE FMul(FInt(22632),
                         FExp(FDiv(FMul(FNeg(g), FSub(h, FInt(11000))),
                                   FMul(R, T))))
        rho == FDiv(P, FMul(R, T))
        a == FSqrt(FMul(FMul(Dec(14, -1), R), T))
    IN <<rho, a>>

(***************************************************************************)
(* The script's namespace is a record ns of its global variables; a line   *)
(* of the script is an operator from the namespace before the line to the  *)
(* namespace after it, named after the variable the line assigns.          *)
(***************************************************************************)
\* the variables the script computes, none of them assigned yet
Computed ==
    {"Wi", "Wf", "rho", "a", "V", "W", "q", "CL", "CD", "Lift", "Drag", "LD",
     "sigma", "Thrust_available", "Thrust_required", "Power_required",
     "Power_available", "ROC", "rho0", "W0", "V_stall_TO", "V2", "mu_roll",
     "Drag_TO", "Net_force", "a_TO", "S_takeoff", "Landing_weight", "W_land",
     "V_stall_L", "V_app", "a_brake", "S_landing", "TSFC_sec", "Range",
     "Endurance", "takeoff_ratio", "landing_ratio"}
Unassigned ==
    [n \in Computed |-> NaN]
    @@ [status |-> "running", service_ceiling |-> [found |-> FALSE, ft |-> 0]]

\* lines 51-54: the slider values
Sliders(mass, altitude_ft, Mach, fuel_fraction) ==
    [mass |-> mass, altitude_ft |-> altitude_ft, Mach |-> Mach,
     fuel_fraction |-> fuel_fraction] @@ Unassigned

\* lines 56-57
set_Wi(ns) == [ns EXCEPT !.Wi = FInt(ns.mass)]
set_Wf(ns) == [ns EXCEPT !.Wf = FDiv(FInt(ns.mass), ns.fuel_fraction)]

\* line 73: rho,a = isa(altitude_ft*0.3048)
set_rho_a(ns) ==
    LET pair == isa(FMul(FInt(ns.altitude_ft), Dec(3048, -4)))
    IN [ns EXCEPT !.rho = pair[1], !.a = pair[2]]
\* lines 74-75
set_V(ns) == [ns EXCEPT !.V = FMul(ns.Mach, ns.a)]
set_W(ns) == [ns EXCEPT !.W = FMul(FInt(ns.mass), g)]

\* lines 81-87
set_q(ns) == [ns EXCEPT !.q = FMul(FMul(Dec(5, -1), ns.rho), FSq(ns.V))]
\* set_CL with the wing area left out of the trim equation
set_CL_without_S(ns) == [ns EXCEPT !.CL = FDiv(ns.W, ns.q)]
set_CL(ns) == [ns EXCEPT !.CL = FDiv(ns.W, FMul(ns.q, FInt(S)))]
\* set_CD with the induced drag subtracted
set_CD_minus(ns) == [ns EXCEPT !.CD = FSub(CD0, FMul(K, FSq(ns.CL)))]
set_CD(ns) == [ns EXCEPT !.CD = FAdd(CD0, FMul(K, FSq(ns.CL)))]
set_Lift(ns) == [ns EXCEPT !.Lift = FMul(FMul(ns.q, FInt(S)), ns.CL)]
set_Drag(ns) == [ns EXCEPT !.Drag = FMul(FMul(ns.q, FInt(S)), ns.CD)]
set_LD(ns) == [ns EXCEPT !.LD = FDiv(ns.CL, ns.CD)]

\* lines 93-100
set_sigma(ns) == [ns EXCEPT !.sigma = FDiv(ns.rho, Dec(1225, -3))]
set_Thrust_available(ns) ==
    [ns EXCEPT !.Thrust_available =
         FMul(FMul(FInt(thrust_SL), FPow(ns.sigma, Dec(8, -1))),
              FSub(FInt(1), FMul(Dec(25, -2), ns.Mach)))]
set_Thrust_required(ns) == [ns EXCEPT !.Thrust_required = ns.Drag]
set_Power_required(ns) ==
    [ns EXCEPT !.Power_required = FMul(ns.Thrust_required, ns.V)]
set_Power_available(ns) ==
    [ns EXCEPT !.Power_available = FMul(ns.Thrust_available, ns.V)]
set_ROC(ns) ==
    [ns EXCEPT !.ROC =
         FDiv(FMul(FSub(ns.Thrust_available, ns.Thrust_required), ns.V),
              ns.W)]

\* lines 74-100 once rho and a are known
Flight(ns) ==
    set_ROC(set_Power_available(set_Power_required(set_Thrust_required(
    set_Thrust_available(set_sigma(set_LD(set_Drag(set_Lift(set_CD(set_CL(
    set_q(set_W(set_V(ns))))))))))))))

\* lines 106-116
set_rho0(ns) == [ns EXCEPT !.rho0 = isa(FInt(0))[1]]
set_W0(ns) == [ns EXCEPT !.W0 = FMul(FInt(ns.mass), g)]
set_V_stall_TO(ns) ==
    [ns EXCEPT !.V_stall_TO =
         FSqrt(FDiv(FMul(FInt(2), ns.W0),
                    FMul(FMul(ns.rho0, FInt(S)), CLmax_TO)))]
set_V2(ns) == [ns EXCEPT !.V2 = FMul(Dec(12, -1), ns.V_stall_TO)]
set_mu_roll(ns) == [ns EXCEPT !.mu_roll = Dec(2, -2)]
\* 0.5*rho0*V2**2*S, which line 113 writes twice
HalfRhoVVS(ns) == FMul(FMul(FMul(Dec(5, -1), ns.rho0), FSq(ns.V2)), FInt(S))
set_Drag_TO(ns) ==
    [ns EXCEPT !.Drag_TO =
         FMul(HalfRhoVVS(ns),
              FAdd(CD0, FMul(K, FSq(FDiv(ns.W0, HalfRhoVVS(ns))))))]
\* set_Net_force with thrust and drag exchanged
set_Net_force_swapped(ns) ==
    [ns EXCEPT !.Net_force =
         FSub(FSub(ns.Drag_TO, FInt(thrust_SL)), FMul(ns.mu_roll, ns.W0))]
set_Net_force(ns) ==
    [ns EXCEPT !.Net_force =
         FSub(FSub(FInt(thrust_SL), ns.Drag_TO), FMul(ns.mu_roll, ns.W0))]
set_a_TO(ns) == [ns EXCEPT !.a_TO = FDiv(ns.Net_force, FInt(ns.mass))]
\* set_S_takeoff with the factor 2 left out
set_S_takeoff_without_2(ns) ==
    [ns EXCEPT !.S_takeoff = FDiv(FSq(ns.V2), ns.a_TO)]
set_S_takeoff(ns) ==
    [ns EXCEPT !.S_takeoff = FDiv(FSq(ns.V2), FMul(FInt(2), ns.a_TO))]

\* lines 118-123
set_Landing_weight(ns) ==
    [ns EXCEPT !.Landing_weight = FMul(Dec(85, -2), FInt(ns.mass))]
set_W_land(ns) == [ns EXCEPT !.W_land = FMul(ns.Landing_weight, g)]
set_V_stall_L(ns) ==
    [ns EXCEPT !.V_stall_L =
         FSqrt(FDiv(FMul(FInt(2), ns.W_land),
                    FMul(FMul(ns.rho0, FInt(S)), CLmax_L)))]
set_V_app(ns) == [ns EXCEPT !.V_app = FMul(Dec(13, -1), ns.V_stall_L)]
\* set_a_brake with g left out
set_a_brake_without_g(ns) == [ns EXCEPT !.a_brake = Dec(3, -1)]
set_a_brake(ns) == [ns EXCEPT !.a_brake = FMul(Dec(3, -1), g)]
set_S_landing(ns) ==
    [ns EXCEPT !.S_landing = FDiv(FSq(ns.V_app), FMul(FInt(2), ns.a_brake))]

TakeoffLanding(ns) ==
    set_S_landing(set_a_brake(set_V_app(set_V_stall_L(set_W_land(
    set_Landing_weight(set_S_takeoff(set_a_TO(set_Net_force(set_Drag_TO(
    set_mu_roll(set_V2(set_V_stall_TO(set_W0(set_rho0(ns)))))))))))))))

\* lines 129-131
set_TSFC_sec(ns) == [ns EXCEPT !.TSFC_sec = FDiv(TSFC_hr, FInt(3600))]
set_Range(ns) ==
    [ns EXCEPT !.Range =
         FMul(FMul(FDiv(ns.V, ns.TSFC_sec), ns.LD),
              FLn(FDiv(ns.Wi, ns.Wf)))]
set_Endurance(ns) ==
    [ns EXCEPT !.Endurance =
         FMul(FMul(FDiv(FInt(1), ns.TSFC_sec), ns.LD),
              FLn(FDiv(ns.Wi, ns.Wf)))]

RangeEndurance(ns) == set_Endurance(set_Range(set_TSFC_sec(ns)))

\* lines 173-175
runway_length == 4000
set_takeoff_ratio(ns) ==
    [ns EXCEPT !.takeoff_ratio =
         FMin(FDiv(ns.S_takeoff, FInt(runway_length)), FInt(1))]
set_landing_ratio(ns) ==
    [ns EXCEPT !.landing_ratio =
         FMin(FDiv(ns.S_landing, FInt(runway_length)), FInt(1))]

\* lines 177 and 180: st.progress raises unless 0.0 <= value <= 1.0
ProgressAccepts(x) == FLe(Zero, x) /\ FLe(x, FInt(1))
Progress(ns) ==
    [ns EXCEPT !.status =
         IF ProgressAccepts(ns.takeoff_ratio)
            /\ ProgressAccepts(ns.landing_ratio)
         THEN "ok" ELSE "StreamlitAPIException"]

\* line 232: the "Service Ceiling" metric is the string "43,000 ft"
ServiceCeilingMetric == 43000
Metrics(ns) ==
    [ns EXCEPT !.service_ceiling =
         [found |-> TRUE, ft |-> ServiceCeilingMetric]]

\* lines 56-73 and lines 173-232
Atmosphere(ns) == set_rho_a(set_Wf(set_Wi(ns)))
Dashboard(ns) == Metrics(Progress(set_landing_ratio(set_takeoff_ratio(ns))))

\* the one member of a one-member set
Only(SS) == CHOOSE x \in SS : TRUE

\* the script from line 56 to its end: each section runs on the namespace
\* the section before it has left
Script(ns) ==
    Only({Dashboard(n4) : n4 \in
         {RangeEndurance(n3) : n3 \in
         {TakeoffLanding(n2) : n2 \in
         {Flight(n1) : n1 \in {Atmosphere(ns)}}}}})

Evaluate(mass, altitude_ft, Mach, fuel_fraction) ==
    Script(Sliders(mass, altitude_ft, Mach, fuel_fraction))

(***************************************************************************)
(* The sliders (lines 51-54).  A slider yields every multiple of its step  *)
(* between its ends; the model draws the two ends, the default and         *)
(* equally spaced values between the ends.  Mach and the fuel ratio move   *)
(* in steps of 0.01 and are counted in hundredths.                         *)
(***************************************************************************)
MassPoints == 1
AltPoints == 2
MachPoints == 2
FuelPoints == 1

mass_min == 200000
mass_default == 250000
altitude_max == 43000
altitude_default == 35000
Mach_min == 20
Mach_max == 86
Mach_default == 84
fuel_min == 120
fuel_max == 180
fuel_default == 150

Grid(lo, hi, n) == {lo + (i * (hi - lo)) \div n : i \in 0..n}

MassValues == Grid(mass_min, MTOW, MassPoints) \cup {mass_default}
AltValues == Grid(0, altitude_max, AltPoints) \cup {altitude_default}
MachValues ==
    {Dec(p, -2) : p \in Grid(Mach_min, Mach_max, MachPoints) \cup {Mach_default}}
\* FuelValues of a slider that starts at 1.00
FuelValues_from_one ==
    {Dec(p, -2) : p \in Grid(100, fuel_max, FuelPoints) \cup {fuel_default}}
FuelValues ==
    {Dec(p, -2) : p \in Grid(fuel_min, fuel_max, FuelPoints) \cup {fuel_default}}

VARIABLES cfg, mass, altitude_ft, Mach, fuel_fraction, out

vars == <<cfg, mass, altitude_ft, Mach, fuel_fraction, out>>

\* Rerun keeping the earlier results when only the fuel slider has moved
Rerun_fuel_cached ==
    /\ cfg' = AircraftConstants
    /\ out' = IF fuel_fraction' # fuel_fraction
              THEN [out EXCEPT !.fuel_fraction = fuel_fraction']
              ELSE Evaluate(mass', altitude_ft', Mach', fuel_fraction')

\* every run of the script assigns the constants anew (lines 28-43) and
\* computes everything else from the sliders as they now stand
Rerun ==
    /\ cfg' = AircraftConstants
    /\ out' = Evaluate(mass', altitude_ft', Mach', fuel_fraction')

Init ==
    /\ cfg = AircraftConstants
    /\ mass = mass_default
    /\ altitude_ft = altitude_default
    /\ Mach = Dec(Mach_default, -2)
    /\ fuel_fraction = Dec(fuel_default, -2)
    /\ out = Evaluate(mass_default, altitude_default, Dec(Mach_default, -2),
                      Dec(fuel_default, -2))

\* moving a slider gives it a new value and leaves the other sliders alone
SetMass(m) ==
    m # mass /\ mass' = m /\ UNCHANGED <<altitude_ft, Mach, fuel_fraction>>
SetAltitude(h) ==
    h # altitude_ft /\ altitude_ft' = h
    /\ UNCHANGED <<mass, Mach, fuel_fraction>>
SetMach(M) ==
    M # Mach /\ Mach' = M /\ UNCHANGED <<mass, altitude_ft, fuel_fraction>>
SetFuel(f) ==
    f # fuel_fraction /\ fuel_fraction' = f
    /\ UNCHANGED <<mass, altitude_ft, Mach>>

\* a slider moves, and the script runs again from its first line to its last
Next ==
    /\ \/ \E m \in MassValues : SetMass(m)
       \/ \E h \in AltValues : SetAltitude(h)
       \/ \E M \in MachValues : SetMach(M)
       \/ \E f \in FuelValues : SetFuel(f)
    /\ Rerun

Spec == Init /\ [][Next]_vars

(***************************************************************************)
(* The script as a function of its inputs.  The computation of lines       *)
(* 56-262 is applied once to each flight condition of a domain that holds  *)
(* the slider values and, beside them, a Mach number of zero and fuel      *)
(* ratios of 1.0 and below 1.                                              *)
(***************************************************************************)
CoreMachValues == MachValues \cup {Zero}
CoreFuelValues == FuelValues \cup {Dec(100, -2), Dec(80, -2)}

InitCore ==
    /\ cfg = AircraftConstants
    /\ mass \in MassValues
    /\ altitude_ft \in AltValues
    /\ Mach \in CoreMachValues
    /\ fuel_fraction \in CoreFuelValues
    /\ out = Sliders(mass, altitude_ft, Mach, fuel_fraction)

\* lines 56-262 run once on the namespace that holds the inputs
RunScript ==
    /\ out.status = "running"
    /\ cfg' = AircraftConstants
    /\ out' = Script(out)
    /\ UNCHANGED <<mass, altitude_ft, Mach, fuel_fraction>>

NextCore == RunScript

SpecCore == InitCore /\ [][NextCore]_vars

(***************************************************************************)
(* Properties                                                              *)
(***************************************************************************)
FAbs(x) == IF x.m < 0 THEN FNeg(x) ELSE x
\* |x - y| <= tol * |y|
Within(x, y, tol) ==
    IsFin(x) /\ IsFin(y) /\ FLe(FAbs(FSub(x, y)), FMul(tol, FAbs(y)))
\* the script has run to its end
Done == out.status # "running"

\* C1: in every state the sliders lead to, Lift = q*S*CL equals the weight
\* W = mass*g to within a relative error of 10^-6 (three 8-digit operations)
C1_LiftEqualsWeight ==
    /\ FLt(Zero, out.q)
    /\ out.W = FMul(FInt(mass), g)
    /\ Within(out.Lift, out.W, Dec(1, -6))
\* a heavy aircraft, slow and high: the lift coefficient is above 10
C1_Witness ==
    /\ mass = MTOW /\ altitude_ft = altitude_max /\ Mach = Dec(Mach_min, -2)
    /\ FLt(FInt(10), out.CL) /\ Within(out.Lift, out.W, Dec(1, -6))

ROCAt(h) == Flight(Atmosphere(Sliders(mass, h, Mach, fuel_fraction))).ROC

\* C4: a service ceiling shown as found is an altitude at which the rate of
\* climb, at the current mass and Mach number, is zero or below
C4_CeilingIsWhereClimbEnds ==
    out.service_ceiling.found => FLe(ROCAt(out.service_ceiling.ft), Zero)

C6_Original ==
    (mass = mass_default) =>
        (FLe(FInt(2000), out.S_takeoff) /\ FLe(out.S_takeoff, FInt(3200)))
\* C6: at a mass of 250000 kg the takeoff distance V2^2/(2a) lies between
\* 1700 m and 1900 m
C6_TakeoffDistance ==
    (mass = mass_default) =>
        (FLe(FInt(1700), out.S_takeoff) /\ FLe(out.S_takeoff, FInt(1900)))
\* 250000 kg with the other sliders moved: the distance is still the same
C6_Witness ==
    /\ mass = mass_default /\ altitude_ft # altitude_default
    /\ Mach # Dec(Mach_default, -2)
    /\ Within(out.S_takeoff, Dec(179197, -2), Dec(1, -4))

\* C7 as the spec words it: at a mass of 250000 kg the landing distance lies
\* between 1500 m and 2200 m
C7_Original ==
    (mass = mass_default) =>
        (FLe(FInt(1500), out.S_landing) /\ FLe(out.S_landing, FInt(2200)))
\* C7: at a mass of 250000 kg the landing distance V_app^2/(2*0.3*g) lies
\* between 1000 m and 1100 m
C7_LandingDistance ==
    (mass = mass_default) =>
        (FLe(FInt(1000), out.S_landing) /\ FLe(out.S_landing, FInt(1100)))
\* 250000 kg with the other sliders moved: the distance is still the same
C7_Witness ==
    /\ mass = mass_default /\ altitude_ft # altitude_default
    /\ fuel_fraction # Dec(fuel_default, -2)
    /\ Within(out.S_landing, Dec(104006, -2), Dec(1, -4))

\* C8: in every state the sliders lead to, CD is finite and at least CD0
C8_DragAtLeastParasitic ==
    FLe(CD0, out.CD) /\ out.CD = FAdd(CD0, FMul(K, FSq(out.CL)))
\* induced drag far above the parasitic drag
C8_Witness == FLt(FInt(1), out.CL) /\ FLt(FInt(1), out.CD)

\* C9: in every state the sliders lead to, OEW <= mass <= MTOW,
\* altitude_ft >= 0, 0 < Mach <= MaxMach, the fuel ratio is above 1 and
\* Wi > Wf > 0
C9_SlidersWithinDomain ==
    /\ OEW <= mass /\ mass <= MTOW
    /\ altitude_ft >= 0
    /\ FLt(Zero, Mach) /\ FLe(Mach, MaxMach)
    /\ FLt(FInt(1), fuel_fraction)
    /\ FLt(out.Wf, out.Wi) /\ FLt(Zero, out.Wf)
\* every slider at an end of its range
C9_Witness ==
    /\ mass = MTOW /\ altitude_ft = 0 /\ Mach = Dec(Mach_max, -2)
    /\ fuel_fraction = Dec(fuel_min, -2)
    /\ FLt(out.Wf, out.Wi)

\* C10: in every state the sliders lead to, q > 0, CD > 0, Wi/Wf > 0, the
\* takeoff net force is positive, S_takeoff is finite and positive, both
\* runway ratios lie in [0, 1] and the progress bars accept them
C10_NoDegenerateArithmetic ==
    /\ FLt(Zero, out.q) /\ FLt(Zero, out.CD)
    /\ FLt(Zero, FDiv(out.Wi, out.Wf))
    /\ FLt(Zero, out.Net_force) /\ FLt(Zero, out.S_takeoff)
    /\ ProgressAccepts(out.takeoff_ratio)
    /\ ProgressAccepts(out.landing_ratio)
    /\ out.status = "ok"
\* the heaviest aircraft: the smallest net force and the longest run
C10_Witness ==
    /\ mass = MTOW /\ FLt(out.Net_force, FInt(550000))
    /\ FLt(FInt(2500), out.S_takeoff) /\ FLt(out.takeoff_ratio, FInt(1))
    /\ out.status = "ok"

=============================================================================
